---- MODULE Spec2Model ----
(***************************************************************************)
(* Radio Calico: the track store, the now-playing promotions               *)
(* (update_track, the poller's update_tracks, rotate_track) and the rating *)
(* ledger (rate_track), in the SQLite variant (flask_app.py,               *)
(* metadata_poller.py, track_rotator.py) and the PostgreSQL variant        *)
(* (flask_app_postgres.py, metadata_poller_postgres.py).                   *)
(*                                                                         *)
(* Every SQL statement of a handler is one step; a transaction's writes    *)
(* stay in its write set (txn[p]) until its commit step.  SQLite admits    *)
(* one writing transaction at a time (the database write lock, taken by    *)
(* the first INSERT/UPDATE); PostgreSQL runs READ COMMITTED with row       *)
(* locks: an UPDATE works on the rows of the snapshot taken when the       *)
(* statement starts and waits for rows locked by other transactions.       *)
(***************************************************************************)
EXTENDS Integers, Sequences, FiniteSets, Bags, TLC

\* ------------------------------------------------------------- bounds
MaxTracks == 3      \* rows the tracks table may grow to
MaxClock == 1       \* seconds the store's clock may advance
MaxLeaks == 2       \* unreturned pool connections the model counts up to

\* ------------------------------------------------------------- values
NULL == "<null>"    \* JSON null / Python None / SQL NULL in a text position
NoRow == 0          \* fetchone() returned None (ids start at 1)

Handlers == {"h1", "h2"}      \* two concurrent Flask request handlers
Poller == "poller"            \* the metadata poller process
Rotator == "rotator"          \* the track rotator process (SQLite only)
Procs == Handlers \cup {Poller, Rotator}

\* A tracks row; `album` stands for album, year and album_art_url, which
\* every statement writes together or not at all.
Row(a, t, alb, at, cur) ==
    [artist |-> a, title |-> t, album |-> alb, played_at |-> at, is_current |-> cur]

\* (artist, title) pairs an announcement may carry; a JSON null artist is
\* stored as SQL NULL and violates NOT NULL on insert.
Announcements ==
    {<<"A", "T">>, <<"B", "T">>, <<NULL, "T">>}

\* Store contents at start-up: empty, seed_sample_tracks (first row
\* current), several rows flagged current, rows but none current, and two
\* rows with the same (artist, title).
InitStores ==
    { <<>>,
      <<Row("A", "T", "X", 0, TRUE), Row("B", "T", "X", 0, FALSE)>>,
      <<Row("A", "T", "X", 0, TRUE), Row("B", "T", "X", 0, TRUE)>>,
      <<Row("B", "T", "X", 0, FALSE)>>,
      <<Row("A", "T", "X", 0, FALSE), Row("A", "T", "X", 0, TRUE)>> }

\* seed_sample_tracks: six rows inserted in one transaction, the first one
\* current, all with the same played_at default.
SeedArtists == <<"A", "B", "C", "D", "E", "F">>
Seeded == [i \in 1..6 |-> Row(SeedArtists[i], "T", "X", 0, i = 1)]

\* Stores the history endpoint is read from: empty, freshly seeded, and the
\* seeded store after a seventh track was announced.
RecentStores ==
    { <<>>, Seeded,
      [i \in 1..6 |-> [Seeded[i] EXCEPT !.is_current = FALSE]]
          \o <<Row("G", "T", "X", 0, TRUE)>> }

VARIABLES
    variant,    \* "sqlite" or "postgres": which pair of source files runs
    startup,    \* flask_app_postgres.py __main__: "init_db", then "run", or "raised"
    attempt,    \* init_db: the loop variable of  for attempt in range(max_retries)
    tracks,     \* committed tracks table: id -> row
    ratings,    \* committed ratings table: a bag of rows
    clock,      \* the store's CURRENT_TIMESTAMP, in seconds
    pgSeq,      \* PostgreSQL: next value of tracks_id_seq
    pc,         \* per process: the statement it executes next
    req,        \* per process: the request being served
    loc,        \* per process: local variables, and the response at "ret"
    txn,        \* per process: the open transaction's write set
    orphans,    \* PostgreSQL: rows locked by transactions a handler left open
    leaked,     \* PostgreSQL: connections calls took from the pool and never put back
    promoted,   \* history: some promotion has committed
    overlapped, \* history: a promotion started while another was in flight
    cast,       \* history: the votes committed so far
    lastCommit, \* history: the tracks table as the last commit (or start-up) left it
    lastPromo,  \* history: (artist, title) of the last committed promotion
    fresh,      \* history: started empty, and every promotion inserted a new row
    shelved,    \* history: the ratings tracks held when a promotion demoted them
    consecutive_errors, \* poller main: failed cycles since the last success
    initial,    \* poller main: the initial poll_metadata() has not returned yet
    failRun,    \* history: failed cycles of the polling loop in a row
    brokenRun,  \* history: the failures in a row that the last success ended
    fetchRun    \* history: failed poll_metadata() calls in a row, the initial one included

hist == <<lastCommit, lastPromo, fresh, shelved>>
mainLoop == <<consecutive_errors, initial, failRun, brokenRun, fetchRun>>
pool == <<orphans, leaked>>
env == <<variant, startup, attempt>>

vars == <<env, tracks, ratings, clock, pgSeq, pc, req, loc, txn,
          pool, promoted, overlapped, cast, hist, mainLoop>>

\* ------------------------------------------------------------- helpers
Merge(f, g) ==
    [x \in (DOMAIN f) \cup (DOMAIN g) |-> IF x \in DOMAIN g THEN g[x] ELSE f[x]]

MaxOf(S) == CHOOSE x \in S : \A y \in S : y <= x

NoTxn == [open |-> FALSE, tw |-> <<>>, rw |-> EmptyBag, start |-> 0]
NoReq == [op |-> "none"]
NoResp == [status |-> 0]
NoLoc == [snap |-> {}, existing |-> NoRow, i |-> 0, resp |-> NoResp,
          atCommit |-> <<0, 0>>]

IsPg == variant = "postgres"

\* What transaction p reads: committed rows overlaid with its own writes.
View(p) == Merge(tracks, txn[p].tw)

\* Rows locked by transactions other than p's (PostgreSQL row locks).
LockedByOthers(p) ==
    orphans \cup
    UNION {DOMAIN txn[q].tw : q \in {r \in DOMAIN txn : r # p /\ txn[r].open}}

\* SQLite: no other connection holds the database write lock.
WriteLockFree(p) ==
    \A q \in DOMAIN txn : q # p => ~txn[q].open

\* CURRENT_TIMESTAMP: the statement's second in SQLite, the transaction's
\* start in PostgreSQL.
Now(p) == IF IsPg THEN txn[p].start ELSE clock

\* ------------------------------------------------- SQL on tracks
\* A promotion that leaves the flags as they are.
ClearAllFlags_Skip(v, rows) ==
    [id \in rows |-> v[id]]

\* UPDATE tracks SET is_current = 0, over the rows the statement sees.
ClearAllFlags(v, rows) ==
    [id \in rows |-> [v[id] EXCEPT !.is_current = FALSE]]

\* WHERE artist = ? AND title = ? (a NULL parameter matches no row).
Matches(v, a, t) ==
    {id \in DOMAIN v : a # NULL /\ t # NULL /\ v[id].artist = a /\ v[id].title = t}

\* ... ORDER BY played_at DESC LIMIT 1: the rows that may come first.
LatestMatches(v, a, t) ==
    {id \in Matches(v, a, t) :
        \A j \in Matches(v, a, t) : v[j].played_at <= v[id].played_at}

\* An UPDATE that refreshes played_at and leaves is_current out.
SetCurrent_NoFlag(row, at) ==
    [row EXCEPT !.played_at = at]

\* UPDATE tracks SET is_current = 1, played_at = CURRENT_TIMESTAMP WHERE id = ?
SetCurrent(row, at) ==
    [row EXCEPT !.is_current = TRUE, !.played_at = at]

\* An INSERT that leaves is_current at its default.
InsertCurrent_Default(a, t, alb, at) == Row(a, t, alb, at, FALSE)

\* INSERT INTO tracks (..., is_current, ...) VALUES (..., 1, ...)
InsertCurrent(a, t, alb, at) == Row(a, t, alb, at, TRUE)

\* A backfill INSERT that flags the row current.
InsertPrevious_Current(a, t, at) == Row(a, t, "", at, TRUE)

\* INSERT INTO tracks (..., is_current, ...) VALUES (?, ?, '', None, 0, ...)
InsertPrevious(a, t, at) == Row(a, t, "", at, FALSE)

\* update_tracks: UPDATE tracks SET is_current = 1, played_at =
\* CURRENT_TIMESTAMP, album = ?, year = ?, album_art_url = ? WHERE id = ?
SetCurrentMeta(row, alb, at) ==
    [row EXCEPT !.is_current = TRUE, !.played_at = at, !.album = alb]

\* The id an INSERT gets: AUTOINCREMENT in SQLite, the sequence in PostgreSQL.
NewId(p) ==
    IF IsPg THEN pgSeq ELSE MaxOf((DOMAIN View(p)) \cup {0}) + 1

\* SELECT ... FROM tracks WHERE is_current = 1
CurrentIds(v) == {id \in DOMAIN v : v[id].is_current}

\* ... LIMIT 1 / fetchone(): any current row, or no row.
NowPlayingRow(v) ==
    IF CurrentIds(v) = {} THEN {NoRow} ELSE CurrentIds(v)

\* ------------------------------------------- requests and the feed
\* The feed documents a poll may fetch: the current track and the
\* prev_artist_i / prev_title_i entries, in order.
Feeds ==
    { [cur |-> <<"A", "T">>, prev |-> <<>>],
      [cur |-> <<"B", "T">>, prev |-> << <<"A", "T">> >>],
      [cur |-> <<"A", "T">>, prev |-> << <<"A", "T">> >>],
      [cur |-> <<NULL, "T">>, prev |-> << <<"B", "T">> >>] }

\* track_rotator.py's pool of tracks to rotate through.
TRACK_POOL == {<<"A", "T">>, <<"B", "T">>}

Promotions == {"update_track", "update_tracks", "rotate_track"}

InFlight(q) == pc[q] \notin {"idle", "ret", "crashed", "stopped"}

ReqKeys(r) ==
    IF r.op \in Promotions
    THEN {<<r.artist, r.title>>} \cup {r.prev[i] : i \in DOMAIN r.prev}
    ELSE {}

Unknown(keys) ==
    {k \in keys : k[1] # NULL /\ k[2] # NULL /\ Matches(tracks, k[1], k[2]) = {}}

Pending ==
    {<<q, k>> \in Procs \X (Announcements \cup TRACK_POOL) :
        InFlight(q) /\ k \in Unknown(ReqKeys(req[q]))}

\* Model bound: a request that may insert is admitted only while the table,
\* and in PostgreSQL the sequence (which a rollback does not rewind), stay
\* within MaxTracks.
HasRoom(keys) ==
    \/ Unknown(keys) = {}
    \/ LET more == Cardinality(Pending) + Cardinality(Unknown(keys))
       IN /\ Cardinality(DOMAIN tracks) + more <= MaxTracks
          /\ IsPg => pgSeq - 1 + more <= MaxTracks

Promotion(op, key, alb, prev) ==
    [op |-> op, artist |-> key[1], title |-> key[2], album |-> alb, prev |-> prev]

\* __main__: app.run() follows init_db(); a handler takes a request when it
\* is not serving another.
Serving(p) == p \in Handlers /\ pc[p] = "idle" /\ startup = "run"

\* ------------------------------------------------ ends of a request
\* The response (or return value) is handed back; the process is idle again.
\* For the poller this is poll_metadata returning to a caller that calls it
\* again whatever it returned; PollReturn is main, which counts failures.
Return(p) ==
    /\ pc[p] = "ret"
    /\ pc' = [pc EXCEPT ![p] = "idle"]
    /\ req' = [req EXCEPT ![p] = NoReq]
    /\ loc' = [loc EXCEPT ![p] = NoLoc]
    /\ UNCHANGED <<env, hist, mainLoop, tracks, ratings, clock, pgSeq, txn, pool, promoted, overlapped, cast>>

\* A transaction that writes through before its commit.
RolledBack_Flush(p) == View(p)

\* The committed tracks table once a connection is closed or dropped with
\* its transaction open: the writes of the transaction are discarded.
RolledBack(p) == tracks

\* PostgreSQL: get_db() took a connection from the pool and the call ends
\* without putconn: get_db never stores the connection in g, so
\* close_connection finds nothing to return.  The pool holds 10; the model
\* follows the count up to MaxLeaks.
Unreturned(n) == IF n < MaxLeaks THEN n + 1 ELSE n

\* An exception in the middle of a request.
\*  - Flask handler: its except branch answers 500.  SQLite: teardown closes
\*    the connection, which rolls the transaction back.  PostgreSQL: the
\*    connection is neither rolled back nor returned to the pool, so its
\*    transaction stays open and keeps its locks.
\*  - poller: poll_metadata catches it and returns False; the connection is
\*    dropped unclosed, which rolls back.
\*  - rotator: nothing catches it; the process ends.
Raise(p, e) ==
    /\ tracks' = RolledBack(p)
    /\ pc' = [pc EXCEPT ![p] = IF p = Rotator THEN "crashed" ELSE "ret"]
    /\ loc' = [loc EXCEPT ![p] = [NoLoc EXCEPT !.resp =
                  [status |-> 500, message |-> e, at |-> pc[p]]]]
    /\ txn' = [txn EXCEPT ![p] = NoTxn]
    /\ orphans' = IF IsPg /\ p \in Handlers /\ txn[p].open
                  THEN orphans \cup DOMAIN txn[p].tw
                  ELSE orphans
    /\ leaked' = IF IsPg /\ p \in Handlers THEN Unreturned(leaked) ELSE leaked

\* ------------------------------------------------------ promotions
\* get_db() and the start of UPDATE tracks SET is_current = 0: the
\* statement sees the rows committed by now.
Begin(p) ==
    /\ loc' = [loc EXCEPT ![p] = [NoLoc EXCEPT !.snap = DOMAIN tracks]]
    /\ txn' = [txn EXCEPT ![p] = [NoTxn EXCEPT !.start = clock]]
    /\ pc' = [pc EXCEPT ![p] = "clear"]
    /\ overlapped' = (overlapped \/ \E q \in Procs \ {p} : InFlight(q))
    /\ UNCHANGED <<env, hist, mainLoop, tracks, ratings, clock, pgSeq, pool, promoted, cast>>

\* update_track: the request arrives and the clearing UPDATE starts.
\* `known` is history: a row of the announced pair was committed by then.
UpdateTrackOf(p, anns, albums) ==
    /\ Serving(p)
    /\ \E ann \in anns, alb \in albums :
         /\ HasRoom({ann})
         /\ req' = [req EXCEPT ![p] = Promotion("update_track", ann, alb, <<>>)
                        @@ [known |-> Matches(tracks, ann[1], ann[2]) # {}]]
    /\ Begin(p)

UpdateTrack(p) == UpdateTrackOf(p, Announcements, {"X"})

\* A fixed-rate timer that fires whether or not the last cycle is over.
Sleeping_Timer(p) == pc[p] # "stopped"

\* main: poll_metadata() is called from the loop itself, after
\* time.sleep(POLL_INTERVAL): the previous call has returned.
Sleeping(p) == pc[p] = "idle"

\* poll_metadata: the feed is fetched and update_tracks starts.
UpdateTracksOf(p, feeds, albums) ==
    /\ p = Poller /\ Sleeping(p)
    /\ \E f \in feeds, alb \in albums :
         /\ HasRoom({f.cur} \cup {f.prev[i] : i \in DOMAIN f.prev})
         /\ req' = [req EXCEPT ![p] = Promotion("update_tracks", f.cur, alb, f.prev)
                        @@ [before |-> <<tracks, ratings>>,
                            known |-> Matches(tracks, f.cur[1], f.cur[2]) # {}]]
    /\ Begin(p)

UpdateTracks(p) == UpdateTracksOf(p, Feeds, {"X"})

\* A rotation that keeps its first random.choice(TRACK_POOL).
RotationChoices_Any(cur) == TRACK_POOL

\* random.choice(TRACK_POOL), and another choice if it is the current track.
RotationChoices(cur) ==
    {k \in TRACK_POOL :
        \/ cur = NoRow
        \/ <<tracks[cur].artist, tracks[cur].title>> # k
        \/ TRACK_POOL \ {k} = {}}

\* rotate_track: reads the current track, picks the next one.  `current` is
\* history: the (artist, title) the SELECT returned, <<>> when it returned
\* no row.
RotateTrack(p) ==
    /\ p = Rotator /\ pc[p] = "idle" /\ ~IsPg
    /\ \E cur \in NowPlayingRow(tracks) : \E k \in RotationChoices(cur) :
         /\ HasRoom({k})
         /\ req' = [req EXCEPT ![p] = Promotion("rotate_track", k, "X", <<>>)
                        @@ [current |-> IF cur = NoRow THEN <<>>
                                        ELSE <<tracks[cur].artist, tracks[cur].title>>]]
    /\ Begin(p)

\* poll_metadata: requests.get or response.json() raises; update_tracks is
\* not called and poll_metadata returns False.  `before` is history: the
\* committed tables when the cycle started.
FetchFails(p) ==
    /\ p = Poller /\ Sleeping(p)
    /\ req' = [req EXCEPT ![p] = [op |-> "poll_metadata", before |-> <<tracks, ratings>>]]
    /\ loc' = [loc EXCEPT ![p] = [NoLoc EXCEPT !.resp =
                  [status |-> 500, message |-> "Error fetching metadata"]]]
    /\ pc' = [pc EXCEPT ![p] = "ret"]
    /\ UNCHANGED <<env, hist, mainLoop, tracks, ratings, clock, pgSeq, txn, pool,
                   promoted, overlapped, cast>>

\* A statement after the clearing UPDATE raises for a reason outside the
\* program (disk I/O error, connection lost), or the poller or the rotator
\* is interrupted there: the transaction is never committed.
StatementFails(p) ==
    /\ pc[p] \in {"lookup", "write", "prev", "commit"}
    /\ Raise(p, "disk I/O error")
    /\ UNCHANGED <<env, hist, mainLoop, ratings, clock, pgSeq, req, promoted, overlapped, cast>>

\* SQLite: the write lock is held by another connection until the busy
\* timeout expires: OperationalError "database is locked".
Busy(p) ==
    /\ pc[p] = "clear" /\ ~IsPg /\ ~WriteLockFree(p)
    /\ Raise(p, "database is locked")
    /\ UNCHANGED <<env, hist, mainLoop, ratings, clock, pgSeq, req, promoted, overlapped, cast>>

\* UPDATE tracks SET is_current = 0
Clear(p) ==
    /\ pc[p] = "clear"
    /\ IF IsPg THEN loc[p].snap \cap LockedByOthers(p) = {} ELSE WriteLockFree(p)
    /\ LET rows == IF IsPg THEN loc[p].snap ELSE DOMAIN tracks
       IN txn' = [txn EXCEPT ![p].open = TRUE,
                             ![p].tw = ClearAllFlags(tracks, rows)]
    /\ pc' = [pc EXCEPT ![p] = "lookup"]
    /\ UNCHANGED <<env, hist, mainLoop, tracks, ratings, clock, pgSeq, req, loc,
                   pool, promoted, overlapped, cast>>

\* A lookup that never finds the row.
Existing_None(p) == {}

\* SELECT id FROM tracks WHERE artist = ? AND title = ?; update_track adds
\* ORDER BY played_at DESC LIMIT 1, the poller and the rotator take the
\* first row the store returns.
Existing(p) ==
    IF req[p].op = "update_track"
    THEN LatestMatches(View(p), req[p].artist, req[p].title)
    ELSE Matches(View(p), req[p].artist, req[p].title)

Lookup(p) ==
    /\ pc[p] = "lookup"
    /\ IF Existing(p) = {}
       THEN loc' = [loc EXCEPT ![p].existing = NoRow]
       ELSE \E id \in Existing(p) : loc' = [loc EXCEPT ![p].existing = id]
    /\ pc' = [pc EXCEPT ![p] = "write"]
    /\ UNCHANGED <<env, hist, mainLoop, tracks, ratings, clock, pgSeq, req, txn,
                   pool, promoted, overlapped, cast>>

AfterWrite(p) == IF req[p].op = "update_tracks" THEN "prev" ELSE "commit"

\* if existing: UPDATE tracks SET is_current = 1, played_at = ... WHERE id = ?
\* (update_track, rotate_track); the poller's UPDATE also sets album, year
\* and album_art_url.
PromoteExisting(p) ==
    /\ pc[p] = "write" /\ loc[p].existing # NoRow
    /\ IsPg => loc[p].existing \notin LockedByOthers(p)
    /\ txn' = [txn EXCEPT ![p].tw =
           (loc[p].existing :>
                IF req[p].op = "update_tracks"
                THEN SetCurrentMeta(View(p)[loc[p].existing], req[p].album, Now(p))
                ELSE SetCurrent(View(p)[loc[p].existing], Now(p))) @@ @]
    /\ pc' = [pc EXCEPT ![p] = AfterWrite(p)]
    /\ UNCHANGED <<env, hist, mainLoop, tracks, ratings, clock, pgSeq, req, loc,
                   pool, promoted, overlapped, cast>>

\* else: INSERT INTO tracks (...) VALUES (..., 1, ...)
PromoteNew(p) ==
    /\ pc[p] = "write" /\ loc[p].existing = NoRow
    /\ req[p].artist # NULL /\ req[p].title # NULL
    /\ txn' = [txn EXCEPT ![p].tw =
           (NewId(p) :> InsertCurrent(req[p].artist, req[p].title, req[p].album,
                                      Now(p))) @@ @]
    /\ pgSeq' = IF IsPg THEN pgSeq + 1 ELSE pgSeq
    /\ pc' = [pc EXCEPT ![p] = AfterWrite(p)]
    /\ UNCHANGED <<env, hist, mainLoop, tracks, ratings, clock, req, loc, pool, promoted, overlapped, cast>>

\* the INSERT violates NOT NULL (a JSON null artist or title): IntegrityError
PromoteNull(p) ==
    /\ pc[p] = "write" /\ loc[p].existing = NoRow
    /\ req[p].artist = NULL \/ req[p].title = NULL
    /\ Raise(p, "NOT NULL constraint failed")
    /\ UNCHANGED <<env, hist, mainLoop, ratings, clock, pgSeq, req, promoted, overlapped, cast>>

\* update_tracks, for i in range(1, 6): a previous entry with a truthy
\* artist and title that no row matches is inserted as not current.
Truthy(x) == x # NULL /\ x # ""

BackfillPrev(p) ==
    /\ pc[p] = "prev" /\ loc[p].i < Len(req[p].prev)
    /\ LET k == req[p].prev[loc[p].i + 1]
           new == Truthy(k[1]) /\ Truthy(k[2]) /\ Matches(View(p), k[1], k[2]) = {}
       IN /\ txn' = IF new
                    THEN [txn EXCEPT ![p].tw =
                            (NewId(p) :> InsertPrevious(k[1], k[2], Now(p))) @@ @]
                    ELSE txn
          /\ pgSeq' = IF new /\ IsPg THEN pgSeq + 1 ELSE pgSeq
    /\ loc' = [loc EXCEPT ![p].i = @ + 1]
    /\ UNCHANGED <<env, hist, mainLoop, tracks, ratings, clock, pc, req, pool, promoted, overlapped, cast>>

BackfillDone(p) ==
    /\ pc[p] = "prev" /\ loc[p].i = Len(req[p].prev)
    /\ pc' = [pc EXCEPT ![p] = "commit"]
    /\ UNCHANGED <<env, hist, mainLoop, tracks, ratings, clock, pgSeq, req, loc, txn,
                   pool, promoted, overlapped, cast>>

\* db.commit(), and the success response / return True.  `shelved` is
\* history: the ratings of the rows this commit takes the flag from.
Commit(p) ==
    /\ pc[p] = "commit"
    /\ tracks' = View(p)
    /\ txn' = [txn EXCEPT ![p] = NoTxn]
    /\ loc' = [loc EXCEPT ![p] = [NoLoc EXCEPT !.resp = [status |-> 200]]]
    /\ pc' = [pc EXCEPT ![p] = "ret"]
    /\ promoted' = TRUE
    /\ lastCommit' = View(p)
    /\ lastPromo' = <<req[p].artist, req[p].title>>
    /\ fresh' = (fresh /\ Matches(tracks, req[p].artist, req[p].title) = {})
    /\ shelved' = shelved \cup
          {r \in BagToSet(ratings) :
              /\ r.track_id \in CurrentIds(tracks)
              /\ r.track_id \notin CurrentIds(View(p))}
    /\ UNCHANGED <<env, mainLoop, ratings, clock, pgSeq, req, pool, overlapped, cast>>

\* ------------------------------------------------------ poller main
max_errors == 5

\* A success that leaves the counter as it is.
OnSuccess_Keep(n) == n

\* if poll_metadata(): consecutive_errors = 0
OnSuccess(n) == 0

\* A loop that never gives up.
ReachedMax_Never(n) == FALSE

\* if consecutive_errors >= max_errors: break
ReachedMax(n) == n >= max_errors

\* An initial fetch whose failure is the first failure counted.
Bootstrap_Counted(ok) == IF ok THEN 0 ELSE 1

\* main: poll_metadata() as a statement, its result dropped, and then
\* consecutive_errors = 0
Bootstrap(ok) == 0

\* main: the result of the initial poll_metadata() is dropped; in the loop
\* a success resets consecutive_errors, a failure increments it, and at
\* max_errors the loop breaks.
PollReturn(p) ==
    /\ p = Poller /\ pc[p] = "ret"
    /\ LET ok == loc[p].resp.status = 200
           n == IF initial THEN Bootstrap(ok)
                ELSE IF ok THEN OnSuccess(consecutive_errors)
                ELSE consecutive_errors + 1
       IN /\ consecutive_errors' = n
          /\ pc' = [pc EXCEPT ![p] =
                IF ~initial /\ ~ok /\ ReachedMax(n) THEN "stopped" ELSE "idle"]
          /\ failRun' = IF initial \/ ok THEN 0 ELSE failRun + 1
          /\ brokenRun' = IF ~initial /\ ok THEN failRun ELSE brokenRun
          /\ fetchRun' = IF ok THEN 0 ELSE fetchRun + 1
    /\ initial' = FALSE
    /\ req' = [req EXCEPT ![p] = NoReq]
    /\ loc' = [loc EXCEPT ![p] = NoLoc]
    /\ UNCHANGED <<env, hist, tracks, ratings, clock, pgSeq, txn, pool,
                   promoted, overlapped, cast>>

\* ------------------------------------------------- SQL on ratings
\* A JSON value of a request body: its type and, for a number or a
\* boolean, its numeric value (Python: True == 1, False == 0); the string
\* "1" and null carry no number.
J(t, v) == [t |-> t, v |-> v]
JTrue == J("bool", 1)
JFalse == J("bool", 0)

\* Python's  x == n  for an int n: numbers and booleans compare by value.
PyEq(x, n) == x.t \in {"int", "bool"} /\ x.v = n

\* rating_type not in [1, -1]
NotInOneMinusOne(x) == ~(PyEq(x, 1) \/ PyEq(x, -1))

\* not user_id: None and the empty string are falsy.
Falsy(u) == u = NULL \/ u = ""

\* A listener id that is a JSON number (7) instead of a string.
NumberId == "<number 7>"

\* The user_id parameter as the statement sees it.  SQLite gives a number
\* bound against the TEXT column the column's affinity: 7 is '7'.
\* PostgreSQL casts it on INSERT only; in a comparison  user_id = 7  has no
\* operator (TypeMismatch).
Bound(u) == IF u = NumberId THEN "7" ELSE u
TypeMismatch(u) == IsPg /\ u = NumberId

Rating(t, u, r) == [track_id |-> t, user_id |-> u, rating_type |-> r]

\* A transaction that sees, and commits, only its own insert.
RView_Own(p) == txn[p].rw

\* The ratings transaction p reads: committed rows and its own insert.
RView(p) == ratings (+) txn[p].rw

\* The lookup without its user_id condition.
ExistingRating_AnyListener(rs, t, u) ==
    {r \in BagToSet(rs) : r.track_id = t}

\* The lookup without its track_id condition.
ExistingRating_AnyTrack(rs, t, u) ==
    {r \in BagToSet(rs) : r.user_id = u}

\* SELECT rating_type FROM ratings WHERE track_id = ? AND user_id = ?
ExistingRating(rs, t, u) ==
    {r \in BagToSet(rs) : r.track_id = t /\ r.user_id = u}

\* SUM(CASE WHEN rating_type = pol THEN 1 ELSE 0 END) ... WHERE track_id = ?
\* SUM over no rows is NULL.
NoSum == -1
SumCase(rs, t, pol) ==
    IF {r \in BagToSet(rs) : r.track_id = t} = {}
    THEN NoSum
    ELSE BagCardinality(
            [r \in {x \in BagToSet(rs) : x.track_id = t /\ x.rating_type = pol}
                |-> CopiesIn(r, rs)])

\* The SUM handed on as it is.
OrZero_Raw(x) == x

\* ratings['thumbs_up'] or 0
OrZero(x) == IF x = NoSum THEN 0 ELSE x

ThumbsUp(rs, t) == OrZero(SumCase(rs, t, 1))
ThumbsDown(rs, t) == OrZero(SumCase(rs, t, -1))

\* str(e) of the exception the refused INSERT raises.
UniqueError ==
    IF IsPg THEN "duplicate key value violates unique constraint"
    ELSE "UNIQUE constraint failed: ratings.track_id, ratings.user_id"

\* A ratings table without the UNIQUE constraint.
UniqueViolation_Off(t, u) == FALSE

\* UNIQUE (track_id, user_id): the INSERT meets a committed row of the pair.
UniqueViolation(t, u) == ExistingRating(ratings, t, u) # {}

\* PostgreSQL: an uncommitted row of the pair in another transaction's
\* write set makes the INSERT wait for that transaction to end.
UniqueWait(p, t, u) ==
    \E q \in Procs \ {p} : txn[q].open /\ ExistingRating(txn[q].rw, t, u) # {}

\* -------------------------------------------------------- now_playing
\* SELECT id, ... FROM tracks WHERE is_current = 1 LIMIT 1.  `after` and
\* `last` are history: whether a promotion had committed when the read
\* started, and which.
NowPlaying(p) ==
    /\ Serving(p)
    /\ \E id \in NowPlayingRow(tracks) :
         loc' = [loc EXCEPT ![p] = [NoLoc EXCEPT !.existing = id]]
    /\ req' = [req EXCEPT ![p] = [op |-> "now_playing", after |-> promoted,
                                    last |-> lastPromo]]
    /\ pc' = [pc EXCEPT ![p] = "np_count"]
    /\ UNCHANGED <<env, hist, mainLoop, tracks, ratings, clock, pgSeq, txn, pool,
                   promoted, overlapped, cast>>

\* if track: the SUM query and the response; else: the placeholder.
NowPlayingCounts(p) ==
    /\ pc[p] = "np_count"
    /\ loc' = [loc EXCEPT ![p].resp =
          IF loc[p].existing # NoRow
          THEN [status |-> 200, id |-> loc[p].existing,
                artist |-> tracks[loc[p].existing].artist,
                title |-> tracks[loc[p].existing].title,
                thumbs_up |-> ThumbsUp(ratings, loc[p].existing),
                thumbs_down |-> ThumbsDown(ratings, loc[p].existing)]
          ELSE [status |-> 200, id |-> NoRow, artist |-> "Radio Calico",
                title |-> "24-bit Lossless Streaming",
                thumbs_up |-> 0, thumbs_down |-> 0]]
    /\ pc' = [pc EXCEPT ![p] = "ret"]
    /\ UNCHANGED <<env, hist, mainLoop, tracks, ratings, clock, pgSeq, req, txn, pool,
                   promoted, overlapped, cast>>

\* ---------------------------------------------------------- rate_track
\* The request arrives with track id t, user_id u and rating_type r; the two
\* validations and SELECT id FROM tracks WHERE id = ?.  `prior` is history:
\* the polarity of the vote the pair had cast when the request arrived
\* (0: none); `before` is history: the ratings committed by then.
PriorRating(t, u) ==
    IF \E r \in cast : r.track_id = t /\ r.user_id = u
    THEN (CHOOSE r \in cast : r.track_id = t /\ r.user_id = u).rating_type
    ELSE 0

RateTrack(p, T, U, R) ==
    /\ Serving(p)
    /\ \E t \in T, u \in U, r \in R :
         /\ req' = [req EXCEPT ![p] =
                [op |-> "rate_track", track_id |-> t, user_id |-> u,
                 rating_type |-> r, prior |-> PriorRating(t, Bound(u)),
                 before |-> ratings]]
         /\ IF Falsy(u)
            THEN /\ loc' = [loc EXCEPT ![p] = [NoLoc EXCEPT !.resp =
                        [status |-> 400, message |-> "user_id is required"]]]
                 /\ pc' = [pc EXCEPT ![p] = "ret"]
            ELSE IF NotInOneMinusOne(r)
            THEN /\ loc' = [loc EXCEPT ![p] = [NoLoc EXCEPT !.resp =
                        [status |-> 400, message |-> "rating_type must be 1 (thumbs up) or -1 (thumbs down)"]]]
                 /\ pc' = [pc EXCEPT ![p] = "ret"]
            ELSE IF t \notin DOMAIN tracks
            THEN /\ loc' = [loc EXCEPT ![p] = [NoLoc EXCEPT !.resp =
                        [status |-> 404, message |-> "Track not found"]]]
                 /\ pc' = [pc EXCEPT ![p] = "ret"]
            ELSE /\ loc' = [loc EXCEPT ![p] = NoLoc]
                 /\ pc' = [pc EXCEPT ![p] = "rt_check"]
    /\ txn' = [txn EXCEPT ![p] = [NoTxn EXCEPT !.start = clock]]
    /\ UNCHANGED <<env, hist, mainLoop, tracks, ratings, clock, pgSeq, pool, promoted, overlapped, cast>>

\* A 409 that echoes the polarity of the request.
DuplicateVote_Echo(rq, e) ==
    [status |-> 409, message |-> "You have already rated this track",
     existing_rating |-> rq.rating_type.v]

\* jsonify({'success': False, 'message': ..., 'existing_rating':
\* existing_rating['rating_type']}), 409
DuplicateVote(rq, e) ==
    [status |-> 409, message |-> "You have already rated this track",
     existing_rating |-> e.rating_type]

\* A check that answers 409 and replaces the stored vote by the new one.
RateCheck_Overwrite(p) ==
    /\ pc[p] = "rt_check"
    /\ LET e == ExistingRating(RView(p), req[p].track_id, Bound(req[p].user_id))
       IN IF e # {}
          THEN /\ \E r \in e :
                    /\ loc' = [loc EXCEPT ![p].resp = DuplicateVote(req[p], r)]
                    /\ ratings' = (ratings (-) SetToBag({r})) (+)
                          SetToBag({Rating(req[p].track_id, Bound(req[p].user_id),
                                           req[p].rating_type.v)})
               /\ pc' = [pc EXCEPT ![p] = "ret"]
          ELSE /\ pc' = [pc EXCEPT ![p] = "rt_insert"]
               /\ loc' = loc
               /\ ratings' = ratings
    /\ UNCHANGED <<env, hist, mainLoop, tracks, clock, pgSeq, req, txn, pool,
                   promoted, overlapped, cast>>

\* SELECT rating_type FROM ratings WHERE track_id = ? AND user_id = ?
\* if existing_rating: 409 with existing_rating
RateCheck(p) ==
    /\ pc[p] = "rt_check" /\ ~TypeMismatch(req[p].user_id)
    /\ LET e == ExistingRating(RView(p), req[p].track_id, Bound(req[p].user_id))
       IN IF e # {}
          THEN /\ \E r \in e :
                    loc' = [loc EXCEPT ![p].resp = DuplicateVote(req[p], r)]
               /\ pc' = [pc EXCEPT ![p] = "ret"]
          ELSE /\ pc' = [pc EXCEPT ![p] = "rt_insert"]
               /\ loc' = loc
    /\ UNCHANGED <<env, hist, mainLoop, tracks, ratings, clock, pgSeq, req, txn, pool,
                   promoted, overlapped, cast>>

\* PostgreSQL: the SELECT compares the text column with a number and
\* raises; the except branch answers 500.
RateCheckFails(p) ==
    /\ pc[p] = "rt_check" /\ TypeMismatch(req[p].user_id)
    /\ Raise(p, "operator does not exist: text = integer")
    /\ UNCHANGED <<env, hist, mainLoop, ratings, clock, pgSeq, req, promoted, overlapped, cast>>

\* SQLite: the write lock is held elsewhere until the busy timeout expires.
RateBusy(p) ==
    /\ pc[p] = "rt_insert" /\ ~IsPg /\ ~WriteLockFree(p)
    /\ Raise(p, "database is locked")
    /\ UNCHANGED <<env, hist, mainLoop, ratings, clock, pgSeq, req, promoted, overlapped, cast>>

\* INSERT INTO ratings (track_id, user_id, rating_type) VALUES (?, ?, ?)
\* fails on the UNIQUE constraint; PostgreSQL also refuses a boolean for
\* the integer column.
RateInsertFails(p) ==
    /\ pc[p] = "rt_insert"
    /\ IF IsPg THEN ~UniqueWait(p, req[p].track_id, Bound(req[p].user_id))
               ELSE WriteLockFree(p)
    /\ \/ /\ UniqueViolation(req[p].track_id, Bound(req[p].user_id))
          /\ Raise(p, UniqueError)
       \/ /\ IsPg /\ req[p].rating_type.t = "bool"
          /\ Raise(p, "column is of type integer")
    /\ UNCHANGED <<env, hist, mainLoop, ratings, clock, pgSeq, req, promoted, overlapped, cast>>

RateInsert(p) ==
    /\ pc[p] = "rt_insert"
    /\ IF IsPg THEN ~UniqueWait(p, req[p].track_id, Bound(req[p].user_id))
               ELSE WriteLockFree(p)
    /\ ~UniqueViolation(req[p].track_id, Bound(req[p].user_id))
    /\ IsPg => req[p].rating_type.t # "bool"
    /\ txn' = [txn EXCEPT ![p].open = TRUE,
                          ![p].rw = SetToBag({Rating(req[p].track_id, Bound(req[p].user_id),
                                                     req[p].rating_type.v)})]
    /\ pc' = [pc EXCEPT ![p] = IF IsPg THEN "rt_count" ELSE "rt_commit"]
    /\ UNCHANGED <<env, hist, mainLoop, tracks, ratings, clock, pgSeq, req, loc, pool,
                   promoted, overlapped, cast>>

\* A commit that also flags the rated track current.
RateCommit_Promote(p) ==
    /\ pc[p] = "rt_commit"
    /\ ratings' = RView(p)
    /\ tracks' = [tracks EXCEPT ![req[p].track_id].is_current = TRUE]
    /\ cast' = cast \cup {Rating(req[p].track_id, Bound(req[p].user_id),
                                  req[p].rating_type.v)}
    /\ txn' = [txn EXCEPT ![p] = NoTxn]
    /\ loc' = [loc EXCEPT ![p].atCommit =
          <<ThumbsUp(RView(p), req[p].track_id), ThumbsDown(RView(p), req[p].track_id)>>]
    /\ pc' = [pc EXCEPT ![p] = IF IsPg THEN "ret" ELSE "rt_count"]
    /\ UNCHANGED <<env, hist, mainLoop, clock, pgSeq, req, pool, promoted, overlapped>>

\* db.commit().  flask_app.py commits before the count query,
\* flask_app_postgres.py after it.  `cast` and `atCommit` are history: the
\* votes accepted so far as their requests carried them, and the track's counts in the state this vote
\* was committed in.
RateCommit(p) ==
    /\ pc[p] = "rt_commit"
    /\ ratings' = RView(p)
    /\ cast' = cast \cup {Rating(req[p].track_id, Bound(req[p].user_id),
                                  req[p].rating_type.v)}
    /\ txn' = [txn EXCEPT ![p] = NoTxn]
    /\ loc' = [loc EXCEPT ![p].atCommit =
          <<ThumbsUp(RView(p), req[p].track_id), ThumbsDown(RView(p), req[p].track_id)>>]
    /\ pc' = [pc EXCEPT ![p] = IF IsPg THEN "ret" ELSE "rt_count"]
    /\ UNCHANGED <<env, hist, mainLoop, tracks, clock, pgSeq, req, pool, promoted, overlapped>>

\* the SUM query, and the success response built from it
RateCount(p) ==
    /\ pc[p] = "rt_count"
    /\ loc' = [loc EXCEPT ![p].resp =
          [status |-> 200, message |-> "Rating submitted successfully",
           thumbs_up |-> ThumbsUp(RView(p), req[p].track_id),
           thumbs_down |-> ThumbsDown(RView(p), req[p].track_id)]]
    /\ pc' = [pc EXCEPT ![p] = IF IsPg THEN "rt_commit" ELSE "ret"]
    /\ UNCHANGED <<env, hist, mainLoop, tracks, ratings, clock, pgSeq, req, txn, pool,
                   promoted, overlapped, cast>>

\* ------------------------------------------------------- rating-status
\* fetchone() returned None: 'rating_type': None
NoRating == 0

\* POST /api/tracks/<id>/rating-status: the listener check, then SELECT
\* rating_type FROM ratings WHERE track_id = ? AND user_id = ?; the tracks
\* table is not read.  `before` is history: the committed tables.
GetRatingStatus(p, T, U) ==
    /\ Serving(p)
    /\ \E t \in T, u \in U :
         /\ req' = [req EXCEPT ![p] = [op |-> "get_rating_status", track_id |-> t,
                                        user_id |-> u, before |-> <<tracks, ratings>>]]
         /\ loc' = [loc EXCEPT ![p] = [NoLoc EXCEPT !.resp =
               IF Falsy(u)
               THEN [status |-> 400, message |-> "user_id is required"]
               ELSE IF TypeMismatch(u)
               THEN [status |-> 500,
                     message |-> "operator does not exist: text = integer"]
               ELSE IF ExistingRating(ratings, t, Bound(u)) # {}
               THEN [status |-> 200, has_rated |-> TRUE,
                     rating_type |->
                        (CHOOSE r \in ExistingRating(ratings, t, Bound(u)) : TRUE).rating_type]
               ELSE [status |-> 200, has_rated |-> FALSE, rating_type |-> NoRating]]]
         /\ leaked' = IF ~Falsy(u) /\ TypeMismatch(u) THEN Unreturned(leaked) ELSE leaked
    /\ pc' = [pc EXCEPT ![p] = "ret"]
    /\ UNCHANGED <<env, hist, mainLoop, tracks, ratings, clock, pgSeq, txn, orphans,
                   promoted, overlapped, cast>>

\* ---------------------------------------------------------------- clock
\* ---------------------------------------------------- recently_played
\* WHERE is_current = 0, without the WHERE clause
NonCurrentIds_All(v) == DOMAIN v

\* WHERE is_current = 0
NonCurrentIds(v) == {id \in DOMAIN v : ~v[id].is_current}

\* ORDER BY played_at DESC LIMIT k over the rows ids of v: every sequence
\* the statement may return. The query names no second sort key, so rows
\* of equal played_at come in whatever order the engine produces.
RECURSIVE TopRows(_, _, _)
TopRows(v, ids, k) ==
    IF k = 0 \/ ids = {} THEN {<<>>}
    ELSE UNION { {<<id>> \o rest : rest \in TopRows(v, ids \ {id}, k - 1)} :
                 id \in {i \in ids : \A j \in ids : v[j].played_at <= v[i].played_at} }

\* LIMIT 5
RecentLimit == 5

\* GET /api/recently-played: one SELECT; the response lists the rows in the
\* order fetched (each entry stands here by the id of its row).
RecentlyPlayed(p) ==
    /\ Serving(p)
    /\ \E s \in TopRows(tracks, NonCurrentIds(tracks), RecentLimit) :
         loc' = [loc EXCEPT ![p] = [NoLoc EXCEPT !.resp = [status |-> 200, data |-> s]]]
    /\ req' = [req EXCEPT ![p] = [op |-> "recently_played", fresh |-> fresh]]
    /\ pc' = [pc EXCEPT ![p] = "ret"]
    /\ UNCHANGED <<env, hist, mainLoop, tracks, ratings, clock, pgSeq, txn, pool,
                   promoted, overlapped, cast>>

Tick ==
    /\ clock < MaxClock
    /\ clock' = clock + 1
    /\ UNCHANGED <<env, hist, mainLoop, tracks, ratings, pgSeq, pc, req, loc, txn,
                   pool, promoted, overlapped, cast>>

\* -------------------------------------------------------------- init_db
max_retries == 5

\* conn = get_db() fails: SimpleConnectionPool or getconn raises a
\* psycopg2.Error, which get_db turns into a plain Exception("Database
\* connection failed: ..."); init_db's  except psycopg2.Error  does not
\* catch that, so it leaves init_db, and __main__, at once.
InitDbConnectFails ==
    /\ startup = "init_db" /\ IsPg
    /\ startup' = "raised"
    /\ UNCHANGED <<variant, attempt, hist, mainLoop, tracks, ratings, clock, pgSeq,
                   pc, req, loc, txn, pool, promoted, overlapped, cast>>

\* The connection is there and a statement of init_db (a CREATE TABLE, the
\* commit, the seeding) raises a psycopg2.Error: the except branch sleeps
\* retry_delay and the loop goes on, or raises after the last attempt.  The
\* connection of the failed attempt is not put back.
InitDbStatementFails ==
    /\ startup = "init_db" /\ IsPg
    /\ IF attempt < max_retries - 1
       THEN attempt' = attempt + 1 /\ startup' = startup
       ELSE attempt' = attempt /\ startup' = "raised"
    /\ leaked' = Unreturned(leaked)
    /\ UNCHANGED <<variant, hist, mainLoop, tracks, ratings, clock, pgSeq,
                   pc, req, loc, txn, orphans, promoted, overlapped, cast>>

\* The tables are created, seed_sample_tracks fills an empty tracks table,
\* the connection is put back and init_db returns: app.run() follows.
InitDbOk ==
    /\ startup = "init_db" /\ IsPg
    /\ startup' = "run"
    /\ tracks' = IF tracks = <<>> THEN Seeded ELSE tracks
    /\ pgSeq' = IF tracks = <<>> THEN Len(Seeded) + 1 ELSE pgSeq
    /\ lastCommit' = tracks'
    /\ fresh' = FALSE
    /\ UNCHANGED <<variant, attempt, lastPromo, shelved, mainLoop, ratings, clock,
                   pc, req, loc, txn, pool, promoted, overlapped, cast>>

\* ------------------------------------------------------- specification
Started(stores, at) ==
    /\ variant \in {"sqlite", "postgres"}
    /\ startup = at
    /\ attempt = 0
    /\ tracks \in stores
    /\ ratings = EmptyBag
    /\ clock = 0
    /\ pgSeq = Cardinality(DOMAIN tracks) + 1
    /\ pc = [p \in Procs |-> "idle"]
    /\ req = [p \in Procs |-> NoReq]
    /\ loc = [p \in Procs |-> NoLoc]
    /\ txn = [p \in Procs |-> NoTxn]
    /\ orphans = {}
    /\ leaked = 0
    /\ promoted = FALSE
    /\ overlapped = FALSE
    /\ cast = {}
    /\ lastCommit = tracks
    /\ lastPromo = <<>>
    /\ fresh = (tracks = <<>>)
    /\ shelved = {}
    /\ consecutive_errors = 0
    /\ initial = TRUE
    /\ failRun = 0
    /\ brokenRun = 0
    /\ fetchRun = 0

\* The state once init_db() has returned and the application serves.
InitWith(stores) == Started(stores, "run")

Init == InitWith(InitStores)

\* listener ids and polarities a request may carry
UserInputs == {NULL, "", "u1", "u2"}
PolarityInputs ==
    {J("int", 1), J("int", -1), J("int", 0), J("int", 2),
     JTrue, JFalse, J("str", 0), J("null", 0)}
TrackIdInputs == 1 .. MaxTracks

PromoteStep(p) ==
    \/ Busy(p) \/ Clear(p) \/ Lookup(p)
    \/ PromoteExisting(p) \/ PromoteNew(p) \/ PromoteNull(p) \/ Commit(p)

BackfillStep(p) == BackfillPrev(p) \/ BackfillDone(p)

RateStep(p) ==
    \/ RateCheck(p) \/ RateInsertFails(p) \/ RateInsert(p)
    \/ RateCommit(p) \/ RateCount(p)

\* listener ids of every JSON kind the handlers tell apart
ListenerInputs == UserInputs \cup {NumberId}

\* Everything: two handlers, the poller, the rotator, the clock.
Next ==
    \/ \E p \in Procs :
         \/ UpdateTrack(p) \/ UpdateTracks(p) \/ RotateTrack(p) \/ PromoteStep(p)
         \/ BackfillStep(p) \/ FetchFails(p) \/ StatementFails(p) \/ PollReturn(p)
         \/ RateTrack(p, TrackIdInputs, ListenerInputs, PolarityInputs) \/ RateStep(p)
         \/ RateBusy(p) \/ RateCheckFails(p)
         \/ GetRatingStatus(p, TrackIdInputs, ListenerInputs)
         \/ NowPlaying(p) \/ NowPlayingCounts(p) \/ RecentlyPlayed(p) \/ Return(p)
    \/ InitDbConnectFails \/ InitDbStatementFails \/ InitDbOk
    \/ Tick

Spec == Init /\ [][Next]_vars

\* Promotions racing: two update_track handlers, with now_playing reads
\* in between, within one second of the store's clock.
NextRace ==
    \E p \in Handlers :
        \/ UpdateTrack(p) \/ PromoteStep(p)
        \/ NowPlaying(p) \/ NowPlayingCounts(p) \/ Return(p)

SpecRace == Init /\ [][NextRace]_vars

\* Every promotion path: one handler, the poller and the rotator.
NextStore ==
    \E p \in {"h1", Poller, Rotator} :
        \/ UpdateTrack(p) \/ UpdateTracks(p) \/ RotateTrack(p) \/ PromoteStep(p)
        \/ BackfillStep(p)
        \/ NowPlaying(p) \/ NowPlayingCounts(p) \/ Return(p)

SpecStore == Init /\ [][NextStore]_vars

\* The poller alone: main's loop around poll_metadata, with cycles that
\* succeed, fail at the fetch, or fail part-way through update_tracks.
NextPoller ==
    \/ UpdateTracks(Poller) \/ FetchFails(Poller) \/ StatementFails(Poller)
    \/ Clear(Poller) \/ Lookup(Poller) \/ PromoteExisting(Poller)
    \/ PromoteNew(Poller) \/ PromoteNull(Poller) \/ BackfillStep(Poller)
    \/ Commit(Poller) \/ PollReturn(Poller)

SpecPoller == Init /\ [][NextPoller]_vars

\* Feeds of the failing promotions: a new current track with a history to
\* backfill, and a current track without an artist.
AbortFeeds == {f \in Feeds : f.cur[1] # "A"}

\* Promotions that may fail or be abandoned at any statement after the
\* clearing UPDATE: one handler, the poller and the rotator.
NextAbort ==
    \E p \in {"h1", Poller, Rotator} :
        \/ UpdateTrack(p) \/ UpdateTracksOf(p, AbortFeeds, {"X"})
        \/ RotateTrack(p) \/ PromoteStep(p)
        \/ BackfillStep(p) \/ StatementFails(p) \/ Return(p)

SpecAbort == Init /\ [][NextAbort]_vars

\* Feeds with longer histories: two previous entries, an entry with an empty
\* artist (skipped), the same entry twice, the current track among them.
BackfillFeeds ==
    { [cur |-> <<"A", "T">>, prev |-> << <<"A", "T">> >>],
      [cur |-> <<"B", "T">>, prev |-> << <<"A", "T">>, <<"C", "T">> >>],
      [cur |-> <<"A", "T">>, prev |-> << <<"", "T">>, <<"B", "T">>, <<"B", "T">> >>],
      [cur |-> <<"C", "T">>, prev |-> << <<"C", "T">>, <<"B", "T">> >>] }

\* Poll cycles that succeed, one after the other.
NextBackfill ==
    \/ UpdateTracksOf(Poller, BackfillFeeds, {"X"})
    \/ Clear(Poller) \/ Lookup(Poller) \/ PromoteExisting(Poller)
    \/ PromoteNew(Poller) \/ BackfillStep(Poller) \/ Commit(Poller)
    \/ PollReturn(Poller)

SpecBackfill == Init /\ [][NextBackfill]_vars

\* Two handlers announcing tracks, every step of a call taken as soon as
\* the store lets it: a statement that can run does run, and a statement
\* waiting for a lock gets it once the lock is free often enough
\* (PostgreSQL queues lock waiters; SQLite retries until its busy timeout).
NextBlock ==
    \E p \in Handlers : UpdateTrack(p) \/ PromoteStep(p) \/ Return(p)

SpecBlock ==
    Init /\ [][NextBlock]_vars /\ \A p \in Handlers : SF_vars(PromoteStep(p))

\* No process other than p is inside a call: p's call starts when the
\* previous one has returned.
Alone(p) == \A q \in Procs \ {p} : ~InFlight(q) /\ pc[q] # "ret"

\* Announcements, poller cycles and rotations one after the other, while
\* the clock advances.
NextDedup ==
    \/ \E p \in {"h1", Poller, Rotator} :
          \/ Alone(p) /\ UpdateTrack(p)
          \/ Alone(p) /\ UpdateTracks(p)
          \/ Alone(p) /\ RotateTrack(p)
          \/ Clear(p) \/ Lookup(p) \/ PromoteExisting(p) \/ PromoteNew(p)
          \/ PromoteNull(p) \/ BackfillStep(p) \/ Commit(p)
          \/ Return(p)
    \/ Tick

SpecDedup == Init /\ [][NextDedup]_vars

\* Announcements through the endpoint and through the poller, one after the
\* other, whose album (with year and artwork) may differ from the stored one.
Albums == {"X", "Y"}

NextMeta ==
    \E p \in {"h1", Poller} :
        \/ Alone(p) /\ UpdateTrackOf(p, Announcements, Albums)
        \/ Alone(p) /\ UpdateTracksOf(p, Feeds, Albums)
        \/ Clear(p) \/ Lookup(p) \/ PromoteExisting(p) \/ PromoteNew(p)
        \/ PromoteNull(p) \/ BackfillStep(p) \/ Commit(p)
        \/ Return(p)

SpecMeta == Init /\ [][NextMeta]_vars

\* The history endpoint: one handler announces tracks and reads the history,
\* while the clock may or may not advance between two announcements.
RecentAnnouncements == {<<"A", "T">>, <<"B", "T">>, <<"C", "T">>}

InitRecent == InitWith(RecentStores)

NextRecent ==
    \/ UpdateTrackOf("h1", RecentAnnouncements, {"X"})
    \/ Clear("h1") \/ Lookup("h1") \/ PromoteExisting("h1") \/ PromoteNew("h1")
    \/ Commit("h1")
    \/ RecentlyPlayed("h1")
    \/ Return("h1")
    \/ Tick

SpecRecent == InitRecent /\ [][NextRecent]_vars

\* The rating ledger starts from the seeded store: track 1 current, track
\* 2 not, no track 3.
InitVote == Init /\ tracks = <<Row("A", "T", "X", 0, TRUE), Row("B", "T", "X", 0, FALSE)>>

\* The rating ledger, one request at a time, over every kind of input.
NextVote ==
    \/ RateTrack("h1", TrackIdInputs, UserInputs, PolarityInputs) \/ RateStep("h1")
    \/ NowPlaying("h1") \/ NowPlayingCounts("h1") \/ Return("h1")

SpecVote == InitVote /\ [][NextVote]_vars

\* The rating ledger and its status endpoint, one request at a time, with
\* listener ids that are strings, empty, null or a number.
NextListener ==
    \/ RateTrack("h1", TrackIdInputs, ListenerInputs, PolarityInputs)
    \/ RateStep("h1") \/ RateCheckFails("h1")
    \/ GetRatingStatus("h1", TrackIdInputs, ListenerInputs)
    \/ Return("h1")

SpecListener == InitVote /\ [][NextListener]_vars

\* Every operation of the core, one call after the other: votes, status
\* and history reads, announcements, poll cycles, rotations.
NextLedger ==
    \E p \in {"h1", Poller, Rotator} :
        \/ Alone(p) /\ RateTrack(p, TrackIdInputs, {"u1"}, {J("int", 1), J("int", -1), JTrue})
        \/ RateStep(p)
        \/ Alone(p) /\ GetRatingStatus(p, TrackIdInputs, {"u1"})
        \/ Alone(p) /\ UpdateTrack(p)
        \/ Alone(p) /\ UpdateTracks(p)
        \/ Alone(p) /\ RotateTrack(p)
        \/ Clear(p) \/ Lookup(p) \/ PromoteExisting(p) \/ PromoteNew(p)
        \/ PromoteNull(p) \/ BackfillStep(p) \/ Commit(p)
        \/ Alone(p) /\ NowPlaying(p)
        \/ NowPlayingCounts(p)
        \/ Alone(p) /\ RecentlyPlayed(p)
        \/ Return(p)

SpecLedger == Init /\ [][NextLedger]_vars

\* Votes of two listeners on the seeded tracks, announcements, poll cycles
\* and now_playing reads, one call after the other, from the seeded store.
NextRevival ==
    \E p \in {"h1", Poller} :
        \/ Alone(p) /\ RateTrack(p, 1 .. 2, {"u1", "u2"}, {J("int", 1), J("int", -1)})
        \/ RateCheck(p) \/ RateInsert(p) \/ RateCommit(p) \/ RateCount(p)
        \/ Alone(p) /\ UpdateTrackOf(p, RecentAnnouncements, {"X"})
        \/ Alone(p) /\ UpdateTracks(p)
        \/ Clear(p) \/ Lookup(p) \/ PromoteExisting(p) \/ PromoteNew(p)
        \/ PromoteNull(p) \/ BackfillStep(p) \/ Commit(p)
        \/ Alone(p) /\ NowPlaying(p)
        \/ NowPlayingCounts(p)
        \/ Return(p)

SpecRevival == InitVote /\ [][NextRevival]_vars

\* PostgreSQL: the application starts on a database that is new or was
\* used before, and then serves update_track calls.
InitStartup == Started(InitStores, "init_db") /\ IsPg

NextStartup ==
    \/ InitDbConnectFails \/ InitDbStatementFails \/ InitDbOk
    \/ UpdateTrack("h1") \/ Clear("h1") \/ Lookup("h1")
    \/ PromoteExisting("h1") \/ PromoteNew("h1") \/ PromoteNull("h1")
    \/ Commit("h1") \/ Return("h1")

SpecStartup == InitStartup /\ [][NextStartup]_vars

\* Poll cycles with histories, each followed by a read of the history
\* endpoint before the next cycle, while the clock advances.
NextHistory ==
    \/ UpdateTracksOf(Poller, BackfillFeeds, {"X"})
    \/ Clear(Poller) \/ Lookup(Poller) \/ PromoteExisting(Poller)
    \/ PromoteNew(Poller) \/ BackfillStep(Poller) \/ Commit(Poller)
    \/ pc["h1"] = "idle" /\ PollReturn(Poller)
    \/ pc[Poller] = "ret" /\ RecentlyPlayed("h1")
    \/ Return("h1")
    \/ Tick

SpecHistory == Init /\ [][NextHistory]_vars

\* The rating ledger under concurrent requests carrying valid inputs.
NextVoteRace ==
    \E p \in Handlers :
        \/ RateTrack(p, 1 .. 2, {"u1", "u2"}, {J("int", 1), J("int", -1)})
        \/ RateStep(p) \/ RateBusy(p) \/ Return(p)

SpecVoteRace == InitVote /\ [][NextVoteRace]_vars

\* ================================================================ claims

\* C1: once a promotion (update_track, a poller cycle, rotate_track) has
\* committed, exactly one track is current in the committed store, whatever
\* the store held at start - in the SQLite variant under any interleaving,
\* and in the PostgreSQL variant as long as promotions never overlapped.
C1_SingleCurrent ==
    (promoted /\ (~IsPg \/ ~overlapped)) => Cardinality(CurrentIds(tracks)) = 1

\* The rotator has just promoted a track in a store of several rows.
C1_Witness ==
    /\ promoted /\ ~IsPg /\ pc[Rotator] = "ret"
    /\ loc[Rotator].resp.status = 200
    /\ Cardinality(DOMAIN tracks) >= 2
    /\ \E id \in DOMAIN tracks : CurrentIds(tracks) = {id}

\* C11: a promotion that fails or is abandoned after it cleared the flags
\* leaves the committed tracks table as the last commit left it: its
\* clearing UPDATE and whatever it wrote after it are never visible.
C11_FailureChangesNothing ==
    tracks = lastCommit

\* update_track has failed on its INSERT, after the clearing UPDATE, and
\* the track that was current is still current.
C11_Witness ==
    /\ pc["h1"] = "ret" /\ req["h1"].op = "update_track"
    /\ loc["h1"].resp.status = 500
    /\ loc["h1"].resp.message = "NOT NULL constraint failed"
    /\ promoted /\ CurrentIds(tracks) # {}

\* C12: a now_playing read reports the (artist, title) of the last
\* update_track call that committed before the read started, whether the
\* call created the track or found it (PostgreSQL: as long as the calls
\* did not overlap).
C12_LastPromotionWins ==
    \A p \in Handlers :
        ( /\ pc[p] = "ret" /\ req[p].op = "now_playing"
          /\ req[p].last # <<>>
          /\ ~IsPg \/ ~overlapped )
        => <<loc[p].resp.artist, loc[p].resp.title>> = req[p].last

\* B was promoted after A had been current, and the read reports B.
C12_Witness ==
    \E p \in Handlers :
        /\ pc[p] = "ret" /\ req[p].op = "now_playing"
        /\ req[p].last = <<"B", "T">>
        /\ loc[p].resp.artist = "B"
        /\ \E id \in DOMAIN tracks :
              tracks[id].artist = "A" /\ tracks[id].played_at <= tracks[loc[p].resp.id].played_at

\* C13: the history endpoint returns at most 5 tracks, none of them
\* current, in non-increasing played_at order, and no omitted non-current
\* track is more recent than a returned one.
C13_RecentlyPlayed ==
    \A p \in Handlers :
        (pc[p] = "ret" /\ req[p].op = "recently_played") =>
            LET s == loc[p].resp.data
                nc == {id \in DOMAIN tracks : ~tracks[id].is_current}
            IN /\ Len(s) <= 5
               /\ Len(s) = IF Cardinality(nc) < 5 THEN Cardinality(nc) ELSE 5
               /\ \A i \in DOMAIN s : s[i] \in nc
               /\ \A i, j \in DOMAIN s : i # j => s[i] # s[j]
               /\ \A i, j \in DOMAIN s :
                     i < j => tracks[s[i]].played_at >= tracks[s[j]].played_at
               /\ \A id \in nc : (\A i \in DOMAIN s : s[i] # id) =>
                     \A i \in DOMAIN s : tracks[id].played_at <= tracks[s[i]].played_at

\* Six tracks are not current, five are returned, and the one left out is
\* older than the first one returned.
C13_Witness ==
    /\ pc["h1"] = "ret" /\ req["h1"].op = "recently_played"
    /\ Len(loc["h1"].resp.data) = 5
    /\ CurrentIds(tracks) # {}
    /\ \E id \in DOMAIN tracks :
          /\ ~tracks[id].is_current
          /\ \A i \in 1..5 : loc["h1"].resp.data[i] # id
          /\ tracks[id].played_at < tracks[loc["h1"].resp.data[1]].played_at

\* C14: after distinct tracks were promoted one by one on an empty store,
\* the history lists the demoted ones most recently demoted first (ids
\* are handed out in promotion order), timestamps tied or not.
C14_HistoryOrder ==
    \A p \in Handlers :
        (pc[p] = "ret" /\ req[p].op = "recently_played" /\ req[p].fresh) =>
            LET s == loc[p].resp.data
            IN /\ Len(s) = Cardinality(DOMAIN tracks) - 1 \/ tracks = <<>>
               /\ \A i \in DOMAIN s : i < Len(s) => s[i] = s[i + 1] + 1

\* C15: entries of equal played_at come with the higher id first.
C15_TieBreakById ==
    \A p \in Handlers :
        (pc[p] = "ret" /\ req[p].op = "recently_played") =>
            LET s == loc[p].resp.data
            IN \A i, j \in DOMAIN s :
                 (i < j /\ tracks[s[i]].played_at = tracks[s[j]].played_at)
                 => s[i] > s[j]

\* No two rows of v share an (artist, title) pair.
NoDuplicates(v) ==
    \A i, j \in DOMAIN v :
        (v[i].artist = v[j].artist /\ v[i].title = v[j].title) => i = j

\* C16: a committing promotion (update_track, poller cycle, rotate_track)
\* on a store without duplicate (artist, title) pairs leaves a store without
\* duplicates, and when the announced pair had a row, that same row is now
\* current with a played_at of the promotion's time and no row was added for
\* the pair (PostgreSQL: for promotions that never overlapped).
C16_Deduplication ==
    [][\A p \in Procs :
         (pc[p] = "commit" /\ pc'[p] = "ret" /\ NoDuplicates(tracks)
            /\ (~IsPg \/ ~overlapped)) =>
            LET m == {id \in DOMAIN tracks : tracks[id].artist = req[p].artist
                                             /\ tracks[id].title = req[p].title}
            IN /\ NoDuplicates(tracks')
               /\ \A id \in m :
                     /\ tracks'[id].is_current
                     /\ tracks'[id].played_at >= txn[p].start
                     /\ tracks'[id].played_at >= tracks[id].played_at]_vars

\* A poller cycle re-sighted a known track one second later: its row is
\* current with the new played_at and the store still has two rows.
C16_Witness ==
    /\ pc[Poller] = "ret" /\ req[Poller].op = "update_tracks"
    /\ loc[Poller].resp.status = 200 /\ req[Poller].known
    /\ NoDuplicates(tracks) /\ Cardinality(DOMAIN tracks) = 2
    /\ \E id \in DOMAIN tracks :
          /\ tracks[id].artist = req[Poller].artist
          /\ tracks[id].is_current /\ tracks[id].played_at = 1

\* C17: when an announcement (update_track or a poller cycle) names a pair
\* that already has a row and commits, the current row carries the album,
\* year and artwork of that announcement.
C17_FreshestMetadata ==
    \A p \in {"h1", Poller} :
        (/\ pc[p] = "ret" /\ req[p].op \in {"update_track", "update_tracks"}
         /\ loc[p].resp.status = 200 /\ req[p].known) =>
            \A id \in CurrentIds(tracks) : tracks[id].album = req[p].album

\* C18: as soon as 5 cycles of the polling loop in a row have failed the
\* poller is STOPPED, and no step is ever taken from STOPPED: no further
\* cycle starts and STOPPED is never left.
C18_StopsAtFive ==
    [][/\ pc[Poller] # "stopped"
       /\ failRun' >= 5 => pc'[Poller] = "stopped"
       /\ failRun' <= 5]_vars

\* The fifth failure in a row has stopped the poller.
C18_Witness ==
    pc[Poller] = "stopped" /\ failRun = 5 /\ consecutive_errors = max_errors

\* C19: the poller stops only on an unbroken run of 5 failed cycles, and
\* after a successful cycle the counter is zero.
C19_SuccessResets ==
    /\ pc[Poller] = "stopped" => failRun >= 5
    /\ consecutive_errors = failRun
    /\ (pc[Poller] = "idle" /\ ~initial /\ failRun = 0) => consecutive_errors = 0

\* 4 failures, a success, 4 failures again: the poller is still running.
C19_Witness ==
    /\ brokenRun = 4 /\ failRun = 4 /\ consecutive_errors = 4
    /\ pc[Poller] = "idle"

\* C20: a poll cycle that failed, at the fetch or at any statement of
\* update_tracks, leaves the committed tracks and ratings what they were
\* when the cycle started.
C20_FailedCycleChangesNothing ==
    (pc[Poller] = "ret" /\ loc[Poller].resp.status = 500)
    => <<tracks, ratings>> = req[Poller].before

\* The cycle failed during backfill, after the flags were cleared and the
\* current track written, in a store that had a current track.
C20_Witness ==
    /\ pc[Poller] = "ret" /\ loc[Poller].resp.status = 500
    /\ req[Poller].op = "update_tracks" /\ loc[Poller].resp.at = "prev"
    /\ CurrentIds(tracks) # {}
    /\ \A id \in CurrentIds(tracks) : tracks[id].artist # req[Poller].artist

C22_BootstrapPopulates ==
    ~initial => promoted

\* C23: a poll cycle starts only when the poller is between cycles: the
\* previous call of poll_metadata has returned to main, its transaction is
\* over and its result has been taken.
C23_CyclesAreSerial ==
    [][(req'[Poller] # req[Poller] /\ req'[Poller].op # "none") =>
          (pc[Poller] = "idle" /\ ~txn[Poller].open /\ req[Poller].op = "none")]_vars

\* A later cycle is inside its transaction, after an earlier one committed.
C23_Witness ==
    /\ ~initial /\ promoted /\ pc[Poller] = "prev" /\ txn[Poller].open
    /\ req[Poller].op = "update_tracks"

\* C24: every update_track call that has started its clearing UPDATE
\* eventually returns a response.
C24_EveryCallReturns ==
    \A p \in Handlers : (pc[p] = "clear") ~> (pc[p] = "ret")

\* C25: for a listener id that is a non-empty string and any track id,
\* existing or not, rating-status answers has_rated = true with the stored
\* polarity exactly when the ratings table holds a row of the pair, and
\* has_rated = false with a null polarity otherwise.
C25_VoteStatus ==
    \A p \in Handlers :
        (pc[p] = "ret" /\ req[p].op = "get_rating_status"
            /\ req[p].user_id \in {"u1", "u2"}) =>
            LET e == {r \in BagToSet(ratings) : r.track_id = req[p].track_id
                                                /\ r.user_id = req[p].user_id}
            IN /\ loc[p].resp.status = 200
               /\ e # {} => /\ loc[p].resp.has_rated
                             /\ \E r \in e : loc[p].resp.rating_type = r.rating_type
               /\ e = {} => /\ ~loc[p].resp.has_rated
                             /\ loc[p].resp.rating_type = 0

\* u1 is told of its thumbs-down on track 1 while u2 has voted up on it.
C25_Witness ==
    /\ pc["h1"] = "ret" /\ req["h1"].op = "get_rating_status"
    /\ req["h1"].track_id = 1 /\ req["h1"].user_id = "u1"
    /\ loc["h1"].resp.has_rated /\ loc["h1"].resp.rating_type = -1
    /\ \E r \in BagToSet(ratings) :
          r.track_id = 1 /\ r.user_id = "u2" /\ r.rating_type = 1

\* C27: a vote with a valid polarity by a string listener on an existing
\* track that the listener has not voted on is accepted, whatever the
\* listener has voted on other tracks.
C27_LimitIsPerTrack ==
    \A p \in Handlers :
        (pc[p] = "ret" /\ req[p].op = "rate_track"
            /\ req[p].user_id \in {"u1", "u2"}
            /\ req[p].rating_type \in {J("int", 1), J("int", -1)}
            /\ req[p].track_id \in DOMAIN tracks
            /\ req[p].prior = 0) =>
            loc[p].resp.status = 200

\* u1, who had voted on track 1, has just voted on track 2 and holds a
\* rating on each.
C27_Witness ==
    /\ pc["h1"] = "ret" /\ req["h1"].op = "rate_track"
    /\ req["h1"].track_id = 2 /\ req["h1"].user_id = "u1"
    /\ loc["h1"].resp.status = 200
    /\ \E r \in BagToSet(req["h1"].before) : r.track_id = 1 /\ r.user_id = "u1"
    /\ \E r \in BagToSet(ratings) : r.track_id = 1 /\ r.user_id = "u1"
    /\ \E r \in BagToSet(ratings) : r.track_id = 2 /\ r.user_id = "u1"

\* C28: rate_track accepts no vote whose listener id is null, empty or not
\* a string: the answer is not a success and no rating is stored.
C28_ListenerValidation ==
    \A p \in Handlers :
        (pc[p] = "ret" /\ req[p].op = "rate_track"
            /\ req[p].user_id \notin {"u1", "u2"}) =>
            /\ loc[p].resp.status # 200
            /\ ratings = req[p].before

\* C29: when rate_track answers 400, 404 or 409 the ratings table is what
\* it was when the request arrived.
C29_RejectedVoteChangesNothing ==
    \A p \in Handlers :
        (pc[p] = "ret" /\ req[p].op = "rate_track"
            /\ loc[p].resp.status \in {400, 404, 409}) =>
            ratings = req[p].before

\* Thumbs-up, then thumbs-down by the same listener: 409 with the existing
\* +1, and the track's counts are still (1, 0).
C29_Witness ==
    /\ pc["h1"] = "ret" /\ req["h1"].op = "rate_track"
    /\ loc["h1"].resp.status = 409
    /\ req["h1"].rating_type = J("int", -1)
    /\ loc["h1"].resp.existing_rating = 1
    /\ ThumbsUp(ratings, req["h1"].track_id) = 1
    /\ ThumbsDown(ratings, req["h1"].track_id) = 0

\* C26: no step of rate_track, rating-status, update_track, a poll cycle or
\* rotate_track removes or changes a stored rating: every row of the
\* ratings table is still there, once, after the step.
C26_RatingsImmutable ==
    [][\A r \in BagToSet(ratings) : CopiesIn(r, ratings') = CopiesIn(r, ratings)]_vars

\* u1's thumbs-up on track 1 has survived promotions and u1's attempt to
\* turn it into a thumbs-down.
C26_Witness ==
    /\ pc["h1"] = "ret" /\ req["h1"].op = "rate_track"
    /\ req["h1"].track_id = 1 /\ req["h1"].rating_type = J("int", -1)
    /\ loc["h1"].resp.status = 409
    /\ promoted /\ Cardinality(DOMAIN tracks) >= 2
    /\ BagToSet(ratings) = {Rating(1, "u1", 1)}

\* C30: a step of rate_track leaves the tracks table as it is, a step of
\* update_track, of a poll cycle or of rotate_track leaves the ratings table
\* as it is, and a step of now_playing, recently_played or rating-status
\* leaves both tables and the id sequence as they are.
C30_NoCrossWrites ==
    [][\A p \in Procs :
         (<<pc[p], req[p], loc[p], txn[p]>> # <<pc'[p], req'[p], loc'[p], txn'[p]>>) =>
            LET op == IF req'[p].op # "none" THEN req'[p].op ELSE req[p].op
            IN /\ op = "rate_track" => tracks' = tracks
               /\ op \in {"update_track", "update_tracks", "rotate_track"}
                     => ratings' = ratings
               /\ op \in {"now_playing", "recently_played", "get_rating_status"}
                     => <<tracks', ratings', pgSeq'>> = <<tracks, ratings, pgSeq>>]_vars

\* A vote was accepted on a track that is not current, after a promotion
\* and before a history read: the track is still not current.
C30_Witness ==
    /\ pc["h1"] = "ret" /\ req["h1"].op = "recently_played"
    /\ promoted /\ ratings # EmptyBag
    /\ \E r \in BagToSet(ratings) :
          r.track_id \in DOMAIN tracks /\ ~tracks[r.track_id].is_current

\* C2: once two simultaneous promotions have both finished, exactly one
\* track is current, in the SQLite and in the PostgreSQL variant.
C2_RaceLeavesOneCurrent ==
    (promoted /\ \A p \in Procs : ~InFlight(p))
    => \E id \in DOMAIN tracks : \A j \in DOMAIN tracks :
          tracks[j].is_current <=> j = id

\* C10: a now_playing read that starts after some promotion has committed
\* finds a current track, also while other promotions are in progress.
C10_NeverNoCurrent ==
    \A p \in Handlers :
        (req[p].op = "now_playing" /\ req[p].after) => loc[p].existing # NoRow

\* A read has found the current track while another process's open
\* transaction has cleared every flag and not yet set the new one.
C10_Witness ==
    \E p \in Handlers, q \in Procs :
        /\ pc[p] = "ret" /\ req[p].op = "now_playing" /\ req[p].after
        /\ loc[p].existing # NoRow
        /\ pc[q] \in {"lookup", "write"} /\ txn[q].open
        /\ tracks # <<>> /\ CurrentIds(View(q)) = {}

\* C3: the ratings table never holds two votes of one (track, listener)
\* pair, also when requests of the same pair run concurrently.
C3_OneVotePerPair ==
    \A r \in BagToSet(ratings) :
        /\ CopiesIn(r, ratings) = 1
        /\ \A r2 \in BagToSet(ratings) :
              (r2.track_id = r.track_id /\ r2.user_id = r.user_id) => r2 = r

\* Two requests of one pair both passed the existing-rating check; one
\* vote was stored and the other INSERT refused.
C3_Witness ==
    \E p, q \in Handlers :
        /\ p # q /\ pc[p] = "ret" /\ pc[q] = "ret"
        /\ req[p].op = "rate_track" /\ req[q].op = "rate_track"
        /\ req[p].track_id = req[q].track_id /\ req[p].user_id = req[q].user_id
        /\ loc[p].resp.status = 200
        /\ loc[q].resp.status = 500
        /\ loc[q].resp.message = UniqueError
        /\ BagCardinality(ratings) = 1

\* C4: of two concurrent first votes of one pair, when one succeeds the
\* other is answered DuplicateVote (409) and nothing else.
C4_LoserSeesDuplicateVote ==
    \A p, q \in Handlers :
        ( /\ p # q /\ pc[p] = "ret" /\ pc[q] = "ret"
          /\ req[p].op = "rate_track" /\ req[q].op = "rate_track"
          /\ req[p].track_id = req[q].track_id /\ req[p].user_id = req[q].user_id
          /\ req[p].prior = 0 /\ req[q].prior = 0
          /\ loc[p].resp.status = 200
          /\ loc[q].resp.message # "database is locked" )
        => loc[q].resp.status = 409

\* C5: a valid rate_track request of a pair that had already voted when
\* the request arrived is answered 409 with the polarity of that vote,
\* whatever polarity the request carries.
C5_DuplicateRejected ==
    \A p \in Handlers :
        (pc[p] = "ret" /\ req[p].op = "rate_track" /\ req[p].prior # 0)
        => /\ loc[p].resp.status = 409
           /\ loc[p].resp.existing_rating = req[p].prior

\* A second vote of the opposite polarity has been rejected.
C5_Witness ==
    \E p \in Handlers :
        /\ pc[p] = "ret" /\ req[p].op = "rate_track" /\ req[p].prior # 0
        /\ req[p].rating_type.v # req[p].prior
        /\ loc[p].resp.status = 409

\* C6: rate_track answers with the first failure in the order MissingUser,
\* InvalidPolarity (polarity not +1/-1), TrackNotFound, DuplicateVote, and
\* with success when there is none (SQLite variant).
C6_FirstFailureWins ==
    \A p \in Handlers :
        (pc[p] = "ret" /\ req[p].op = "rate_track" /\ ~IsPg)
        => <<loc[p].resp.status, loc[p].resp.message>> =
             IF req[p].user_id \in {NULL, ""}
             THEN <<400, "user_id is required">>
             ELSE IF req[p].rating_type \notin {J("int", 1), J("int", -1)}
             THEN <<400, "rating_type must be 1 (thumbs up) or -1 (thumbs down)">>
             ELSE IF req[p].track_id \notin DOMAIN tracks
             THEN <<404, "Track not found">>
             ELSE IF req[p].prior # 0
             THEN <<409, "You have already rated this track">>
             ELSE <<200, "Rating submitted successfully">>

\* C7: a polarity other than the integer +1 or -1 (another integer, a
\* boolean, a string, null) is rejected as InvalidPolarity (SQLite variant).
C7_StrictPolarity ==
    \A p \in Handlers :
        ( /\ pc[p] = "ret" /\ req[p].op = "rate_track" /\ ~IsPg
          /\ req[p].user_id \notin {NULL, ""}
          /\ req[p].rating_type \notin {J("int", 1), J("int", -1)} )
        => /\ loc[p].resp.status = 400
           /\ loc[p].resp.message = "rating_type must be 1 (thumbs up) or -1 (thumbs down)"

\* C8: now_playing reports for the current track exactly the number of
\* accepted +1 votes and of accepted -1 votes, and (0, 0), never null,
\* for a track nobody rated.
C8_CountsExact ==
    \A p \in Handlers :
        (pc[p] = "ret" /\ req[p].op = "now_playing" /\ loc[p].resp.id # NoRow)
        => /\ loc[p].resp.thumbs_up = Cardinality(
                 {r \in cast : r.track_id = loc[p].resp.id /\ r.rating_type = 1})
           /\ loc[p].resp.thumbs_down = Cardinality(
                 {r \in cast : r.track_id = loc[p].resp.id /\ r.rating_type = -1})

\* The current track is reported after one listener voted up and one down.
C8_Witness ==
    \E p \in Handlers :
        /\ pc[p] = "ret" /\ req[p].op = "now_playing"
        /\ loc[p].resp.id # NoRow
        /\ loc[p].resp.thumbs_up = 1 /\ loc[p].resp.thumbs_down = 1

\* C9: the counts a successful rate_track returns are the track's counts
\* in the state in which its vote was committed (SQLite variant).
C9_CountsAtCommit ==
    \A p \in Handlers :
        ( /\ pc[p] = "ret" /\ req[p].op = "rate_track" /\ ~IsPg
          /\ loc[p].resp.status = 200 )
        => <<loc[p].resp.thumbs_up, loc[p].resp.thumbs_down>> = loc[p].atCommit

\* C31: whichever path resolves an (artist, title) pair that several rows
\* carry - update_track, a poll cycle or rotate_track - the row it has
\* found, and is about to promote, is a most recently played row of the pair.
C31_MostRecentDuplicate ==
    \A p \in Procs :
        (pc[p] = "write" /\ loc[p].existing # NoRow) =>
            \A j \in DOMAIN View(p) :
                (View(p)[j].artist = req[p].artist /\ View(p)[j].title = req[p].title)
                => View(p)[j].played_at <= View(p)[loc[p].existing].played_at

\* C32: after a successful poll cycle every previous entry of the feed
\* that carries an artist and a title, the empty string included, has a row
\* stored under exactly that artist and title.
C32_EmptyKeysStored ==
    (pc[Poller] = "ret" /\ req[Poller].op = "update_tracks"
        /\ loc[Poller].resp.status = 200) =>
        \A i \in DOMAIN req[Poller].prev :
            (req[Poller].prev[i][1] # NULL /\ req[Poller].prev[i][2] # NULL) =>
                \E id \in DOMAIN tracks :
                    /\ tracks[id].artist = req[Poller].prev[i][1]
                    /\ tracks[id].title = req[Poller].prev[i][2]

\* C33: on a store that holds one row per (artist, title), the ratings a
\* track held when it was demoted are still its ratings when its pair is
\* promoted again: now_playing reports the pair under the id those ratings
\* are on, with exactly the votes accepted for it, and a listener among them
\* who votes on it again is answered 409 with the polarity of that vote.
C33_RatingsSurviveRepromotion ==
    \A p \in Handlers :
        /\ (pc[p] = "ret" /\ req[p].op = "now_playing" /\ loc[p].resp.id # NoRow) =>
              /\ \A r \in shelved :
                    ( /\ tracks[r.track_id].artist = loc[p].resp.artist
                      /\ tracks[r.track_id].title = loc[p].resp.title )
                    => r.track_id = loc[p].resp.id
              /\ loc[p].resp.thumbs_up = Cardinality(
                    {r \in cast : /\ tracks[r.track_id].artist = loc[p].resp.artist
                                  /\ tracks[r.track_id].title = loc[p].resp.title
                                  /\ r.rating_type = 1})
              /\ loc[p].resp.thumbs_down = Cardinality(
                    {r \in cast : /\ tracks[r.track_id].artist = loc[p].resp.artist
                                  /\ tracks[r.track_id].title = loc[p].resp.title
                                  /\ r.rating_type = -1})
        /\ (pc[p] = "ret" /\ req[p].op = "rate_track"
               /\ req[p].track_id \in CurrentIds(tracks)) =>
              \A r \in shelved :
                    ( /\ tracks[r.track_id].artist = tracks[req[p].track_id].artist
                      /\ tracks[r.track_id].title = tracks[req[p].track_id].title
                      /\ r.user_id = req[p].user_id )
                    => /\ loc[p].resp.status = 409
                       /\ loc[p].resp.existing_rating = r.rating_type

\* Track 1 was demoted holding a thumbs-up of u1 and a thumbs-down of u2,
\* its pair was promoted again, and now_playing reports it as track 1 with
\* counts (1, 1).
C33_Witness ==
    /\ pc["h1"] = "ret" /\ req["h1"].op = "now_playing"
    /\ loc["h1"].resp.id = 1
    /\ shelved = {Rating(1, "u1", 1), Rating(1, "u2", -1)}
    /\ loc["h1"].resp.thumbs_up = 1 /\ loc["h1"].resp.thumbs_down = 1
    /\ lastPromo = <<tracks[1].artist, tracks[1].title>>
    /\ \E id \in DOMAIN tracks : id # 1 /\ ~tracks[id].is_current

\* C34: the initial fetch leaves the failure counter alone: the counter is
\* the number of failed loop cycles in a row, one less than the failed
\* fetches in a row when the initial fetch is among them; it is 0 when the
\* loop starts, and the poller stops at 5 failed loop cycles, which after a
\* failed initial fetch is the 6th failed fetch in a row.
C34_BootstrapNotCounted ==
    /\ fetchRun - consecutive_errors \in {0, 1}
    /\ initial => (consecutive_errors = 0 /\ fetchRun = 0)
    /\ (~initial /\ failRun = 0) => (consecutive_errors = 0 /\ fetchRun <= 1)
    /\ pc[Poller] = "stopped" <=> consecutive_errors = max_errors
    /\ (fetchRun > consecutive_errors /\ pc[Poller] = "stopped") => fetchRun = 6
    /\ fetchRun <= 6

\* The initial fetch and five loop cycles have failed: the poller has
\* stopped at the sixth failed fetch, and nothing was ever promoted.
C34_Witness ==
    /\ pc[Poller] = "stopped" /\ fetchRun = 6 /\ failRun = 5
    /\ consecutive_errors = max_errors /\ ~promoted

\* C35: PostgreSQL variant: whenever no request is being served, every
\* connection that get_db() handed out has been put back into the pool.
C35_PoolBalanced ==
    (IsPg /\ \A p \in Handlers : pc[p] \in {"idle", "ret"}) => leaked = 0

\* C36: PostgreSQL variant: init_db gives up only after its 5th attempt:
\* when it has raised, the attempt that failed was the last of max_retries.
C36_StartupRetries ==
    startup = "raised" => attempt = max_retries - 1

\* C37: in the history read that follows a successful poll cycle, the rows
\* of the feed's previous entries come in feed order: an entry listed
\* earlier is never below one listed later, rows of equal played_at aside.
C37_FeedOrder ==
    ( /\ pc[Poller] = "ret" /\ req[Poller].op = "update_tracks"
      /\ loc[Poller].resp.status = 200
      /\ pc["h1"] = "ret" /\ req["h1"].op = "recently_played" ) =>
        LET s == loc["h1"].resp.data
            prev == req[Poller].prev
            At(k) == {n \in DOMAIN s : tracks[s[n]].artist = k[1]
                                       /\ tracks[s[n]].title = k[2]}
        IN \A i, j \in DOMAIN prev :
              i < j =>
                \A a \in At(prev[i]), b \in At(prev[j]) :
                    a <= b \/ tracks[s[a]].played_at = tracks[s[b]].played_at

\* C38: when rotate_track found a current track and commits, no row that is
\* current after the commit has the (artist, title) of the track that was
\* current when it was called, whichever track random.choice returned.
C38_NeverRepeats ==
    [][( /\ pc[Rotator] = "commit" /\ pc'[Rotator] = "ret"
         /\ req[Rotator].op = "rotate_track"
         /\ req[Rotator].current # <<>> ) =>
            /\ CurrentIds(tracks') # {}
            /\ \A id \in CurrentIds(tracks') :
                  <<tracks'[id].artist, tracks'[id].title>> # req[Rotator].current]_vars

\* A rotation that found a track current has committed and another track is
\* the current one.
C38_Witness ==
    /\ pc[Rotator] = "ret" /\ req[Rotator].op = "rotate_track"
    /\ loc[Rotator].resp.status = 200
    /\ req[Rotator].current # <<>>
    /\ \E id \in CurrentIds(tracks) :
          /\ tracks[id].artist = req[Rotator].artist
          /\ <<tracks[id].artist, tracks[id].title>> # req[Rotator].current

====
